---- MODULE Spec2Model ----
(***************************************************************************)
(* Model of the parse command (src/unnamed/part_000): the command-line     *)
(* plumbing (argument check, existence check, output directory, read,      *)
(* parse, write, confirmation lines, top-level catch) and the formatAST    *)
(* re-indentation scan, one action per loop iteration.                     *)
(*                                                                         *)
(* Strings are sequences of one-character strings.  The scan index i is    *)
(* the 0-based index of the code, so the code's ast[i] is ast[i + 1] here. *)
(***************************************************************************)
EXTENDS Integers, Sequences, FiniteSets, TLC

VARIABLES
    pc,        \* position of the program
    ast,       \* formatAST: the parameter ast
    i,         \* formatAST: loop index (0-based)
    depth,     \* formatAST: depth
    result,    \* formatAST: result
    filePath,  \* process.argv[2]
    disk,      \* [outDir: does parse_results exist, outFile: content of the output file]
    stdout,    \* lines written by console.log
    stderr,    \* lines written to standard error
    exitCode   \* <<>> while running, <<code>> once the process has exited

vars == <<pc, ast, i, depth, result, filePath, disk, stdout, stderr, exitCode>>

----------------------------------------------------------------------------
(* Bounds *)

MaxLen == 6
MaxTraceLines == 3

----------------------------------------------------------------------------
(* Characters and inputs *)

LF == "\n"
SP == " "

Alphabet == {"(", ")", SP, LF, "a"}

\* "(a (b) (c d))", the rendering example, and the same with a run of spaces
Example == <<"(", "a", SP, "(", "b", ")", SP, "(", "c", SP, "d", ")", ")">>
ExampleRun == <<"(", "a", SP, "(", "b", ")", SP, "(", "c", SP, SP, SP, "d", ")", ")">>

Examples == {Example, ExampleRun}

Inputs == (UNION {[1..n -> Alphabet] : n \in 0..MaxLen}) \cup Examples

----------------------------------------------------------------------------
(* formatAST, lines 24-48 *)

RangeError == <<"RangeError">>

\* '  '.repeat(count): throws RangeError for a negative count
repeat_Clamped(count) == [k \in 1..(2 * count) |-> SP]
repeat_OneSpace(count) ==
    IF count < 0 THEN RangeError ELSE [k \in 1..count |-> SP]
repeat(count) ==
    IF count < 0 THEN RangeError ELSE [k \in 1..(2 * count) |-> SP]

\* while (i < ast.length && ast[i] === ' ') i++;   (line 40)
RECURSIVE skipSpaces(_)
skipSpaces(j) ==
    IF j < Len(ast) /\ ast[j + 1] = SP THEN skipSpaces(j + 1) ELSE j

InLoop == pc = "scan" /\ i < Len(ast)
char == ast[i + 1]
\* ast[i - 1] !== '\n'   (ast[-1] is undefined)
prevNotNewline == IF i = 0 THEN TRUE ELSE ast[i] # LF

cliVars == <<filePath, disk, stdout, stderr, exitCode>>

\* lines 32-34
OpenParen_NoBreak ==
    /\ InLoop /\ char = "("
    /\ result' = result \o <<char>>
    /\ depth' = depth + 1
    /\ i' = i + 1
    /\ UNCHANGED <<pc, ast, cliVars>>
OpenParen_NoIncrement ==
    /\ InLoop /\ char = "("
    /\ result' = result \o <<char, LF>> \o repeat(depth + 1)
    /\ depth' = depth
    /\ i' = i + 1
    /\ UNCHANGED <<pc, ast, cliVars>>
OpenParen ==
    /\ InLoop /\ char = "("
    /\ result' = result \o <<char, LF>> \o repeat(depth + 1)
    /\ depth' = depth + 1
    /\ i' = i + 1
    /\ UNCHANGED <<pc, ast, cliVars>>

\* lines 35-37: depth-- happens before repeat(depth) is evaluated; when repeat
\* throws, result is not assigned and the loop is left
CloseParen_NoChar ==
    /\ InLoop /\ char = ")"
    /\ depth' = depth - 1
    /\ IF repeat(depth - 1) = RangeError
          THEN pc' = "thrown" /\ UNCHANGED <<result, i>>
          ELSE /\ result' = result \o <<LF>> \o repeat(depth - 1)
               /\ i' = i + 1
               /\ pc' = pc
    /\ UNCHANGED <<ast, cliVars>>
CloseParen ==
    /\ InLoop /\ char = ")"
    /\ depth' = depth - 1
    /\ IF repeat(depth - 1) = RangeError
          THEN pc' = "thrown" /\ UNCHANGED <<result, i>>
          ELSE /\ result' = result \o <<LF>> \o repeat(depth - 1) \o <<char>>
               /\ i' = i + 1
               /\ pc' = pc
    /\ UNCHANGED <<ast, cliVars>>

\* lines 38-41, followed by the loop's i++
SpaceBreak_NoStepBack ==
    /\ InLoop /\ char = SP /\ prevNotNewline
    /\ result' = result \o <<LF>> \o repeat(depth)
    /\ i' = skipSpaces(i) + 1
    /\ UNCHANGED <<pc, ast, depth, cliVars>>
SpaceBreak_NoSkip ==
    /\ InLoop /\ char = SP /\ prevNotNewline
    /\ result' = result \o <<LF>> \o repeat(depth)
    /\ i' = i + 1
    /\ UNCHANGED <<pc, ast, depth, cliVars>>
SpaceBreak_KeepSpace ==
    /\ InLoop /\ char = SP /\ prevNotNewline
    /\ result' = result \o <<char, LF>> \o repeat(depth)
    /\ i' = (skipSpaces(i) - 1) + 1
    /\ UNCHANGED <<pc, ast, depth, cliVars>>
SpaceBreak ==
    /\ InLoop /\ char = SP /\ prevNotNewline
    /\ result' = result \o <<LF>> \o repeat(depth)
    /\ i' = (skipSpaces(i) - 1) + 1
    /\ UNCHANGED <<pc, ast, depth, cliVars>>

\* lines 42-44
Other ==
    /\ InLoop
    /\ char # "(" /\ char # ")" /\ ~(char = SP /\ prevNotNewline)
    /\ result' = result \o <<char>>
    /\ i' = i + 1
    /\ UNCHANGED <<pc, ast, depth, cliVars>>

\* loop exit and line 47
Return ==
    /\ pc = "scan" /\ i >= Len(ast)
    /\ pc' = "returned"
    /\ UNCHANGED <<ast, i, depth, result, cliVars>>

----------------------------------------------------------------------------
(* The command, lines 7-22 and 50-71 *)

Undefined == "<undefined>"
Args == {Undefined, "", "missing.js", "example.js"}

\* the files fs.existsSync(filePath) finds
SourceFiles == {"example.js"}
existsSync(p) == p \in SourceFiles

Timestamps == {"t1", "t2"}

Absent == <<"absent">>
Truncated == <<"truncated">>
Stale == <<"File:", "example.js", "Parsed at:", "t0", <<"(", LF, ")">> >>

\* line 62
Report(path, now, formattedAST) == <<"File:", path, "Parsed at:", now, formattedAST>>

UsageLine == <<"Usage: npm run parse -- <path-to-file>">>
NotFoundLine(p) == <<"Error: File not found:", p>>
ParseErrorLine(what) == <<"Parse error:", what>>
ParsedLine(p) == <<"Parsed:", p>>
SavedLine(p) == <<"Saved to:", p>>

\* what the runtime prints for an exception no handler catches: the throwing
\* source line, the error message and the stack, n lines in all
UncaughtReport(n) == [k \in 1..n |-> <<"uncaught", k>>]

scanVars == <<ast, i, depth, result>>

\* process.exit(code)
Exit(code) ==
    /\ exitCode' = <<code>>
    /\ pc' = "exited"

\* lines 68-71
Catch(message) ==
    /\ stderr' = Append(stderr, ParseErrorLine(message))
    /\ Exit(1)

\* lines 7-12
ArgCheck ==
    /\ pc = "start"
    /\ IF filePath = Undefined \/ filePath = ""
          THEN /\ stderr' = Append(stderr, UsageLine)
               /\ Exit(1)
          ELSE /\ pc' = "existcheck"
               /\ UNCHANGED <<stderr, exitCode>>
    /\ UNCHANGED <<scanVars, filePath, disk, stdout>>

\* lines 14-17
ExistCheck_MkdirFirst ==
    /\ pc = "existcheck"
    /\ disk' = [disk EXCEPT !.outDir = TRUE]
    /\ IF ~existsSync(filePath)
          THEN /\ stderr' = Append(stderr, NotFoundLine(filePath))
               /\ Exit(1)
          ELSE /\ pc' = "mkdir"
               /\ UNCHANGED <<stderr, exitCode>>
    /\ UNCHANGED <<scanVars, filePath, stdout>>
ExistCheck ==
    /\ pc = "existcheck"
    /\ IF ~existsSync(filePath)
          THEN /\ stderr' = Append(stderr, NotFoundLine(filePath))
               /\ Exit(1)
          ELSE /\ pc' = "mkdir"
               /\ UNCHANGED <<stderr, exitCode>>
    /\ UNCHANGED <<scanVars, filePath, disk, stdout>>

\* lines 19-22: outside the try block, so a fault of mkdirSync is caught by
\* nothing: the runtime prints its report and the process exits with code 1
MakeOutputDir ==
    /\ pc = "mkdir"
    /\ IF disk.outDir
          THEN /\ pc' = "setup"
               /\ UNCHANGED <<disk, stderr, exitCode>>
          ELSE \/ /\ disk' = [disk EXCEPT !.outDir = TRUE]
                  /\ pc' = "setup"
                  /\ UNCHANGED <<stderr, exitCode>>
               \/ /\ \E n \in 2..MaxTraceLines :
                        stderr' = stderr \o UncaughtReport(n)
                  /\ Exit(1)
                  /\ UNCHANGED disk
    /\ UNCHANGED <<scanVars, filePath, stdout>>

\* lines 50-52
ParserSetup ==
    /\ pc = "setup"
    /\ \/ /\ pc' = "read"
          /\ UNCHANGED <<stderr, exitCode>>
       \/ Catch("setLanguage")
    /\ UNCHANGED <<scanVars, filePath, disk, stdout>>

\* line 54
ReadSource ==
    /\ pc = "read"
    /\ \/ /\ pc' = "parse"
          /\ UNCHANGED <<stderr, exitCode>>
       \/ Catch("readFileSync")
    /\ UNCHANGED <<scanVars, filePath, disk, stdout>>

\* lines 55-61: parse, the output file name, rootNode.toString(), and the call
\* of formatAST with the string the parsing engine returned
Parse ==
    /\ pc = "parse"
    /\ \/ /\ \E s \in Inputs : ast' = s
          /\ i' = 0
          /\ depth' = 0
          /\ result' = <<>>
          /\ pc' = "scan"
          /\ UNCHANGED <<stderr, exitCode>>
       \/ /\ Catch("parse")
          /\ UNCHANGED scanVars
    /\ UNCHANGED <<filePath, disk, stdout>>

\* formatAST threw inside the try block
CatchFormatError ==
    /\ pc = "thrown"
    /\ Catch("Invalid count value")
    /\ UNCHANGED <<scanVars, filePath, disk, stdout>>

\* lines 62-64: a failing writeFileSync leaves the file as it was or, when the
\* fault comes after the file was opened for writing, truncated
WriteOutput ==
    /\ pc = "returned"
    /\ \/ /\ \E now \in Timestamps :
                disk' = [disk EXCEPT !.outFile = Report(filePath, now, result)]
          /\ pc' = "written"
          /\ UNCHANGED <<stderr, exitCode>>
       \/ /\ \E left \in {disk.outFile, Truncated} :
                disk' = [disk EXCEPT !.outFile = left]
          /\ Catch("writeFileSync")
    /\ UNCHANGED <<scanVars, filePath, stdout>>

\* line 66
LogParsed ==
    /\ pc = "written"
    /\ stdout' = Append(stdout, ParsedLine(filePath))
    /\ pc' = "logged"
    /\ UNCHANGED <<scanVars, filePath, disk, stderr, exitCode>>

\* line 67, and the end of the script
LogSaved ==
    /\ pc = "logged"
    /\ stdout' = Append(stdout, SavedLine("parse_results/example.txt"))
    /\ Exit(0)
    /\ UNCHANGED <<scanVars, filePath, disk, stderr>>

InitialDisks ==
    { [outDir |-> FALSE, outFile |-> Absent],
      [outDir |-> TRUE, outFile |-> Absent],
      [outDir |-> TRUE, outFile |-> Stale] }

Init ==
    /\ pc = "start"
    /\ filePath \in Args
    /\ disk \in InitialDisks
    /\ ast = <<>>
    /\ i = 0
    /\ depth = 0
    /\ result = <<>>
    /\ stdout = <<>>
    /\ stderr = <<>>
    /\ exitCode = <<>>

Next ==
    \/ ArgCheck \/ ExistCheck \/ MakeOutputDir \/ ParserSetup \/ ReadSource
    \/ Parse \/ OpenParen \/ CloseParen \/ SpaceBreak \/ Other \/ Return
    \/ CatchFormatError \/ WriteOutput \/ LogParsed \/ LogSaved

Spec == Init /\ [][Next]_vars

\* formatAST called on each input
FInit ==
    /\ pc = "scan"
    /\ ast \in Inputs
    /\ i = 0
    /\ depth = 0
    /\ result = <<>>
    /\ filePath = "example.js"
    /\ disk = [outDir |-> TRUE, outFile |-> Absent]
    /\ stdout = <<>>
    /\ stderr = <<>>
    /\ exitCode = <<>>

FNext == OpenParen \/ CloseParen \/ SpaceBreak \/ Other \/ Return

FormatSpec == FInit /\ [][FNext]_vars

FairFormatSpec == FormatSpec /\ WF_vars(FNext)

----------------------------------------------------------------------------
(* Vocabulary of the properties *)

Count(s, c) == Cardinality({k \in 1..Len(s) : s[k] = c})
Net(s) == Count(s, "(") - Count(s, ")")
Prefix(s, n) == SubSeq(s, 1, n)

NeverNegative(s) == \A n \in 0..Len(s) : Net(Prefix(s, n)) >= 0
Balanced(s) == NeverNegative(s) /\ Net(s) = 0

IsInk(c) == c # SP /\ c # LF
IsNotSpace(c) == c # SP
NonWhitespace(s) == SelectSeq(s, IsInk)
WithoutSpaces(s) == SelectSeq(s, IsNotSpace)

Spaces(n) == [k \in 1..n |-> SP]

\* a parenthesized token string: balanced, opened by a node, no line break,
\* and every space a single separator standing between two siblings
TokenString(s) ==
    /\ Balanced(s)
    /\ Len(s) > 0
    /\ s[1] = "("
    /\ \A k \in 1..Len(s) : s[k] # LF
    /\ \A k \in 1..Len(s) :
          s[k] = SP => /\ k > 1 /\ k < Len(s)
                       /\ s[k - 1] \notin {SP, "("}
                       /\ s[k + 1] \notin {SP, ")"}

\* s with every line break, and the run of spaces after it, removed
RECURSIVE StripFrom(_, _, _)
StripFrom(s, k, inIndent) ==
    IF k > Len(s) THEN <<>>
    ELSE IF s[k] = LF THEN StripFrom(s, k + 1, TRUE)
    ELSE IF s[k] = SP /\ inIndent THEN StripFrom(s, k + 1, TRUE)
    ELSE <<s[k]>> \o StripFrom(s, k + 1, FALSE)
Strip(s) == StripFrom(s, 1, FALSE)

\* position k of out is alone on its line: only spaces between the start of
\* the line and k, and the line ends right after k
OwnLine(out, k) ==
    /\ \E j \in 0..(k - 1) :
          /\ IF j = 0 THEN TRUE ELSE out[j] = LF
          /\ \A m \in (j + 1)..(k - 1) : out[m] = SP
    /\ IF k = Len(out) THEN TRUE ELSE out[k + 1] = LF
ParensAlone(out) ==
    \A k \in 1..Len(out) : out[k] \in {"(", ")"} => OwnLine(out, k)

\* every "(" opens a line of the input or follows a separator or another "(",
\* every ")" ends the input or is followed by a separator or another ")"
Separated(s) ==
    \A k \in 1..Len(s) :
       /\ s[k] = "(" => (IF k = 1 THEN TRUE ELSE s[k - 1] \in {SP, LF, "("})
       /\ s[k] = ")" => (IF k = Len(s) THEN TRUE ELSE s[k + 1] \in {SP, LF, ")"})

\* what the step appended to result
Appended == SubSeq(result', Len(result) + 1, Len(result'))
\* nesting depth of the input up to and including the character being scanned
Level == Net(Prefix(ast, i + 1))

ExampleFormatted ==
    <<"(", LF, SP, SP, "a",
      LF, SP, SP, "(", LF, SP, SP, SP, SP, "b", LF, SP, SP, ")",
      LF, SP, SP, "(", LF, SP, SP, SP, SP, "c", LF, SP, SP, SP, SP, "d",
      LF, SP, SP, ")",
      LF, ")">>

----------------------------------------------------------------------------
(* Properties *)

\* C1 as stated: for a token string s, removing the inserted line breaks and
\* indentation runs from formatAST(s) gives back s, separators included.
C1_Original ==
    (pc = "returned" /\ TokenString(ast)) => Strip(result) = ast

\* C1 amended: for a token string s, removing the inserted line breaks and
\* indentation runs from formatAST(s) gives back s without its separating
\* spaces (each separator is consumed and replaced by a line break); every
\* other character comes back in place.
C1_StripLosesSeparators ==
    (pc = "returned" /\ TokenString(ast)) => Strip(result) = WithoutSpaces(ast)

C1_Witness ==
    /\ pc = "returned"
    /\ ast = Example
    /\ TokenString(ast)
    /\ Strip(result) = <<"(", "a", "(", "b", ")", "(", "c", "d", ")", ")">>

\* C2 as stated: formatAST never signals a fault; an input in which a ")" is
\* scanned at depth 0 is still scanned to the end and a string is returned.
C2_Original ==
    ~NeverNegative(ast) => pc # "thrown"

\* C2 amended: formatAST has an error outcome.  A ")" scanned at depth 0 makes
\* depth -1, repeat(-1) throws RangeError and the scan stops at that ")" with
\* nothing returned; formatAST returns only for inputs none of whose prefixes
\* holds more ")" than "(".
C2_ThrowsOnUnderflow ==
    /\ pc = "returned" => NeverNegative(ast)
    /\ pc = "scan" => NeverNegative(Prefix(ast, i))
    /\ pc = "thrown" =>
          /\ i < Len(ast)
          /\ ast[i + 1] = ")"
          /\ NeverNegative(Prefix(ast, i))
          /\ Net(Prefix(ast, i)) = 0
          /\ depth = 0 - 1

C2_Witness ==
    /\ pc = "thrown"
    /\ i > 0
    /\ result # <<>>

\* C3 as stated: for every balanced input, every parenthesis of the output is
\* alone on its line.
C3_Original ==
    (pc = "returned" /\ Balanced(ast)) => ParensAlone(result)

\* C3 amended: for every balanced input in which each "(" is the first
\* character or directly follows a space, a line break or a "(", and each ")"
\* is the last character or is directly followed by a space, a line break or
\* a ")", every parenthesis of the output is alone on its line and the output
\* has as many of each as the input.
C3_ParensOnOwnLine ==
    (pc = "returned" /\ Balanced(ast) /\ Separated(ast)) =>
        /\ ParensAlone(result)
        /\ Count(result, "(") = Count(ast, "(")
        /\ Count(result, ")") = Count(ast, ")")

C3_Witness ==
    /\ pc = "returned"
    /\ ast = <<"(", "(", "a", ")", SP, "(", ")", ")">> \/ ast = Example
    /\ Balanced(ast) /\ Separated(ast)
    /\ ParensAlone(result)
    /\ Count(result, "(") >= 3

\* C4: whenever formatAST returns, the non-whitespace characters of the
\* output are those of the input, in the same order; in particular the
\* numbers of "(" and of ")" agree.
C4_InkPreserved ==
    pc = "returned" =>
        /\ NonWhitespace(result) = NonWhitespace(ast)
        /\ Count(result, "(") = Count(ast, "(")
        /\ Count(result, ")") = Count(ast, ")")

C4_Witness ==
    /\ pc = "returned"
    /\ ast = ExampleRun
    /\ NonWhitespace(result) = <<"(", "a", "(", "b", ")", "(", "c", "d", ")", ")">>

\* the command was given a path that names no file
PathNotFound == filePath # Undefined /\ filePath # "" /\ ~existsSync(filePath)

\* C5: run with a path that does not exist, the process exits with code 1 and
\* no step changes the disk: parse_results is not created and the output
\* file is neither written nor overwritten.
C5_NotFoundLeavesDisk ==
    /\ [](PathNotFound /\ pc = "exited" => exitCode = <<1>>)
    /\ [][PathNotFound => disk' = disk]_vars

C5_Witness ==
    /\ pc = "exited"
    /\ filePath = "missing.js"
    /\ exitCode = <<1>>
    /\ ~disk.outDir
    /\ stderr = <<NotFoundLine("missing.js")>>

OutputComplete ==
    \E now \in Timestamps : disk.outFile = Report(filePath, now, result)

\* C6: a run ends in exactly one of two ways: the output file is completely
\* written, then the two confirmation lines are printed, exit code 0; or, for
\* a fault at any step (argument, existence, directory creation, read, parse,
\* format, write), exactly one diagnostic line on standard error, no
\* confirmation line, exit code 1.
C6_TwoOutcomes ==
    /\ stdout # <<>> => OutputComplete /\ stderr = <<>>
    /\ pc = "exited" =>
          \/ /\ exitCode = <<0>>
             /\ Len(stdout) = 2
             /\ stderr = <<>>
             /\ OutputComplete
          \/ /\ exitCode = <<1>>
             /\ Len(stderr) = 1
             /\ stdout = <<>>

\* the last character of the output is a line break the formatter inserted
\* (a line break copied from the input is the last input character consumed)
AfterInsertedNewline ==
    /\ result # <<>>
    /\ result[Len(result)] = LF
    /\ IF i = 0 THEN TRUE ELSE ast[i] # LF

\* the scan index after a step that skipped the run of spaces starting at i
PastTheRun(j) ==
    /\ j > i /\ j <= Len(ast)
    /\ \A k \in (i + 1)..j : ast[k] = SP
    /\ IF j = Len(ast) THEN TRUE ELSE ast[j + 1] # SP

OneBreakForTheRun ==
    /\ result' = result \o <<LF>> \o Spaces(2 * depth)
    /\ PastTheRun(i')

\* C7 as stated: a space not immediately preceded by a newline the formatter
\* has inserted becomes one line break plus indentation and its whole run is
\* skipped, no space of the run being emitted as content.
C7_Original ==
    [][(InLoop /\ char = SP /\ ~AfterInsertedNewline) => OneBreakForTheRun]_vars

\* C7 amended: the test reads the input, not the output.  A space becomes one
\* line break plus current-depth indentation, its whole run skipped, exactly
\* when the input character before it is not a line break; a space directly
\* after an input line break is emitted unchanged and the scan moves on by one.
C7_BreakUnlessInputNewline ==
    [][(InLoop /\ char = SP) =>
          IF i = 0 \/ ast[i] # LF
             THEN OneBreakForTheRun
             ELSE result' = result \o <<SP>> /\ i' = i + 1]_vars

C7_Witness ==
    /\ pc = "scan"
    /\ ast = ExampleRun
    /\ i = 12
    /\ Count(result, LF) = 7
    /\ SubSeq(result, Len(result) - 5, Len(result)) = <<"c", LF, SP, SP, SP, SP>>

\* C8: every line break formatAST inserts is followed by exactly 2*d spaces,
\* d the nesting depth of the input up to and including the character
\* scanned (depth+1 after "(", the decremented depth before ")", the current
\* depth for a space); "(a (b) (c d))" is rendered with a and the parentheses
\* of (b) and (c d) at level 1, b, c and d at level 2, the last ")" at level 0.
C8_Indentation ==
    /\ [][(InLoop /\ char # LF /\ (\E k \in 1..Len(Appended) : Appended[k] = LF)) =>
             Appended = (IF char = "(" THEN <<"(">> ELSE <<>>)
                        \o <<LF>> \o Spaces(2 * Level)
                        \o (IF char = ")" THEN <<")">> ELSE <<>>)]_vars
    /\ [](pc = "returned" /\ ast = Example => result = ExampleFormatted)

C8_Witness ==
    /\ pc = "returned"
    /\ ast = Example
    /\ result = ExampleFormatted

\* the number of input characters the scan has acted on
Consumed == IF pc = "thrown" THEN i + 1 ELSE i

\* C9: depth equals the number of "(" minus the number of ")" in the input
\* consumed so far; so for a balanced input depth is never negative and is 0
\* once the whole input is consumed.
C9_DepthIsNesting ==
    /\ depth = Net(Prefix(ast, Consumed))
    /\ Balanced(ast) => depth >= 0 /\ pc # "thrown"
    /\ (Balanced(ast) /\ pc = "returned") => depth = 0

C9_Witness ==
    /\ pc = "returned"
    /\ ast = <<"(", "(", ")", ")">>
    /\ depth = 0

\* C10: each iteration leaves the index strictly greater than it found it and
\* never beyond the input length, also when a run of spaces ends the input;
\* so the scan ends, by returning or by throwing.
C10_Terminates ==
    /\ [][(pc = "scan" /\ pc' = "scan") => (i' > i /\ i' <= Len(ast))]_vars
    /\ <>(pc \in {"returned", "thrown"})

C10_Witness ==
    /\ pc = "returned"
    /\ i = Len(ast)
    /\ Len(ast) >= 3
    /\ ast[Len(ast)] = SP
    /\ ast[Len(ast) - 1] = SP
    /\ ast[Len(ast) - 2] = "a"

====
